---- MODULE Spec2Model ----
(***************************************************************************)
(* A model of SceneManager (7-1_FinalProjectMilestones/Source/             *)
(* SceneManager.cpp): the texture registry, the material registry, the     *)
(* shader-state setters and the PrepareScene / RenderScene passes.         *)
(*                                                                         *)
(* Floating-point literals of the source are kept as integers in           *)
(* hundredths (5.0f is 500, .01f is 1).  The uniforms held by the shader   *)
(* manager are variables of the model; a uniform that was never written    *)
(* holds zero.                                                             *)
(*                                                                         *)
(* Five specifications drive the same operations:                          *)
(*   Spec          PrepareScene once, then RenderScene statement by        *)
(*                 statement, as the program runs it;                      *)
(*   SpecRegistry  arbitrary calls of the texture-registry methods;        *)
(*   SpecShader    arbitrary calls of the material / shader-state methods; *)
(*   SpecMaterial  material lookups over registries with repeated tags;    *)
(*   SpecTransform SetTransformations over whole-number arguments.         *)
(***************************************************************************)
EXTENDS Integers, Sequences, FiniteSets, TLC

\* ------------------------------------------------------------- bounds

\* SceneManager.cpp:146 "There are up to 16 slots": the size of m_textureIDs.
MaxTextures == 16
\* How many registrations past the end of m_textureIDs the model follows.
MaxOverflow == 1
\* How many calls SpecRegistry makes after its initial registrations.
MaxRegistryCalls == 4
\* How many calls SpecShader makes.
MaxShaderCalls == 4
\* How many RenderScene passes Spec runs.
MaxFrames == 2
\* How many calls SpecTransform makes.
MaxTransformCalls == 2

\* ------------------------------------------------------------- values

NULL == "NULL"
ShaderManagers == {NULL, "shader"}

\* The tags the scene registers (LoadTextures, lines 504-515), then further
\* tags for calls beyond the scene's own.  Tags are only ever compared for
\* equality, so a call's tag is either one used before or the next new one.
TagOrder ==
  << "moss", "paver", "stonetop", "rock", "water", "stone",
     "t07", "t08", "t09", "t10", "t11", "t12", "t13", "t14", "t15", "t16",
     "t17", "t18", "t19", "t20", "t21", "t22" >>
AllTags == { TagOrder[i] : i \in 1..Len(TagOrder) }

\* What stbi_load hands back: no image, or an image with 1..4 channels.
NoImage == [decoded |-> FALSE, colorChannels |-> 0]
Images == {NoImage} \cup { [decoded |-> TRUE, colorChannels |-> c] : c \in 1..4 }

\* What the memory past the end of m_textureIDs may hold when it is read
\* back: the entry as written, or what its owner put there.
ForeignEntry == [ID |-> 0, tag |-> ""]

\* The not-found value of FindTextureID / FindTextureSlot.
NotFound == -1

\* (int) of a GLuint, as FindTextureID returns it.
ToInt(u) == IF u > 2147483647 THEN ((u - 2147483647) - 2147483647) - 2 ELSE u

VARIABLES
  m_pShaderManager,   \* NULL or the shader manager given to the constructor
  m_textureIDs,       \* the entries written so far, m_textureIDs[0..] as a sequence
  m_loadedTextures,   \* the registry's entry count
  glNextName,         \* the texture name glGenTextures returns next
  glActiveUnit,       \* glActiveTexture's unit
  glBound,            \* texture unit -> texture name bound to GL_TEXTURE_2D (0: none)
  m_objectMaterials,  \* the material registry
  meshLoads,          \* the ShapeMeshes loads made, in order
  model,              \* uniform "model"
  bUseTexture,        \* uniform "bUseTexture"
  bUseLighting,       \* uniform "bUseLighting"
  objectTexture,      \* uniform "objectTexture" (sampler slot)
  objectColor,        \* uniform "objectColor"
  UVscale,            \* uniform "UVscale"
  material,           \* uniforms "material.*"
  lights,             \* the light-source uniforms
  crashed,            \* a null shader manager was dereferenced
  prepared,           \* PrepareScene has run
  pc,                 \* RenderScene: index of the next statement (0: not running)
  frame,              \* RenderScene passes started
  scaleXYZ,           \* RenderScene's locals
  rotationDegrees,
  positionXYZ,
  last,               \* the call made last
  objOps,             \* RenderScene: state-setting calls since the previous draw
  registered,         \* <<tag, handle>> of every successful registration, in order
  calledTags,         \* the tags CreateGLTexture was called with
  tagReused,          \* some CreateGLTexture call reused an earlier call's tag
  destroyed,          \* DestroyGLTextures has run
  calls,              \* calls made by a driving specification
  prepareCalls,       \* the calls PrepareScene made, in order
  draws               \* per RenderScene pass, its draw calls and the uniforms at each

texVars == << m_textureIDs, m_loadedTextures, glNextName, glActiveUnit, glBound >>
shaderVars == << model, bUseTexture, bUseLighting, objectTexture, objectColor,
                 UVscale, material, lights >>
localVars == << scaleXYZ, rotationDegrees, positionXYZ >>
passVars == << prepared, pc, frame, objOps >>
logVars == << registered, calledTags, tagReused, destroyed >>
vars == << m_pShaderManager, texVars, m_objectMaterials, meshLoads, shaderVars,
           crashed, passVars, localVars, last, logVars, calls, prepareCalls, draws >>

nonTexVars == << m_pShaderManager, m_objectMaterials, meshLoads, shaderVars,
                 crashed, passVars, localVars, prepareCalls, draws >>

\* ------------------------------------------------- the texture registry

Units == 0..(MaxTextures + MaxOverflow)

\* The registry and the GL texture state as one value.
TexState ==
  [ ids |-> m_textureIDs, loaded |-> m_loadedTextures, next |-> glNextName,
    active |-> glActiveUnit, bound |-> glBound ]

\* m_textureIDs[index] of the source (0-based).
EntryAt(ids, index) == ids[index + 1]

RECURSIVE FindFrom(_, _, _, _)
\* The while loop of FindTextureID / FindTextureSlot from `index` on: the
\* index of the first entry carrying `tag`, or m_loadedTextures if none does.
FindFrom(tag, ids, loaded, index) ==
  IF index < loaded
    THEN IF EntryAt(ids, index).tag = tag
           THEN index
           ELSE FindFrom(tag, ids, loaded, index + 1)
    ELSE loaded

FindTextureIDIn(tag, ids, loaded) ==
  LET index == FindFrom(tag, ids, loaded, 0)
  IN  IF index < loaded THEN ToInt(EntryAt(ids, index).ID) ELSE NotFound

\* FindTextureSlot as it would be with 0 as its not-found value.
FindTextureSlotIn_ZeroSentinel(tag, ids, loaded) ==
  LET index == FindFrom(tag, ids, loaded, 0)
  IN  IF index < loaded THEN index ELSE 0

FindTextureSlotIn(tag, ids, loaded) ==
  LET index == FindFrom(tag, ids, loaded, 0)
  IN  IF index < loaded THEN index ELSE NotFound

FindTextureID(tag) == FindTextureIDIn(tag, m_textureIDs, m_loadedTextures)
FindTextureSlot(tag) == FindTextureSlotIn(tag, m_textureIDs, m_loadedTextures)

\* What CreateGLTexture returns for an image.
CreateGLTextureReturns(image) ==
  image.decoded /\ image.colorChannels \in {3, 4}

\* CreateGLTexture as it would be if every channel count but 3 were uploaded
\* as RGBA (a plain else in place of the else-if of line 113).
CreateGLTextureOn_AnyChannels(t, tag, image, stored) ==
  IF ~image.decoded
    THEN t
    ELSE [t EXCEPT !.next = t.next + 1,
                   !.bound = [t.bound EXCEPT ![t.active] = 0],
                   !.ids = Append(t.ids, stored),
                   !.loaded = t.loaded + 1]

\* CreateGLTexture(filename, tag) on texture state t, `image` being what
\* stbi_load returned and `stored` what m_textureIDs[m_loadedTextures] reads
\* back as after the two assignments of lines 129-130.
CreateGLTextureOn(t, tag, image, stored) ==
  IF ~image.decoded
    THEN t
    ELSE LET textureID == t.next
             generated == [t EXCEPT !.next = t.next + 1]
         IN  IF image.colorChannels \in {3, 4}
               THEN [generated EXCEPT
                       !.bound = [t.bound EXCEPT ![t.active] = 0],
                       !.ids = Append(t.ids, stored),
                       !.loaded = t.loaded + 1]
               ELSE [generated EXCEPT
                       !.bound = [t.bound EXCEPT ![t.active] = textureID]]

\* The values m_textureIDs[m_loadedTextures] can read back as: inside the
\* array, the entry written; past its end, that or what else lives there.
StoredEntries(t, tag) ==
  LET written == [ID |-> t.next, tag |-> tag]
  IN  IF t.loaded < MaxTextures THEN {written} ELSE {written, ForeignEntry}

RECURSIVE BindFrom(_, _)
\* The for loop of BindGLTextures from index i on.
BindFrom(t, i) ==
  IF i < t.loaded
    THEN BindFrom([t EXCEPT !.active = i,
                            !.bound = [t.bound EXCEPT ![i] = EntryAt(t.ids, i).ID]],
                  i + 1)
    ELSE t

\* BindGLTextures as it would be with its loop starting at the second entry.
BindGLTexturesOn_FromSecond(t) == BindFrom(t, 1)

BindGLTexturesOn(t) == BindFrom(t, 0)

RECURSIVE DestroyFrom(_, _)
\* The for loop of DestroyGLTextures from index i on: glGenTextures writes a
\* newly generated name into each entry's ID.
DestroyFrom(t, i) ==
  IF i < t.loaded
    THEN DestroyFrom([t EXCEPT !.ids = [t.ids EXCEPT ![i + 1].ID = t.next],
                               !.next = t.next + 1],
                     i + 1)
    ELSE t

DestroyGLTexturesOn(t) == DestroyFrom(t, 0)

\* The texture names that are allocated: glGenTextures hands out the names
\* 1, 2, ... and the source never calls glDeleteTextures.
glAllocated == 1..(glNextName - 1)

SetTexState(t) ==
  /\ m_textureIDs' = t.ids
  /\ m_loadedTextures' = t.loaded
  /\ glNextName' = t.next
  /\ glActiveUnit' = t.active
  /\ glBound' = t.bound

\* A call as `last` records it: the method, the line of RenderScene it was
\* made from (0: made by a driving specification), its tag argument,
\* CreateGLTexture's channel count (0: no image) and return value.
Call(op, line, tag, ch, ret) ==
  [op |-> op, line |-> line, tag |-> tag, ch |-> ch, ret |-> ret]

\* The registration log kept beside a CreateGLTexture call.
LogCreate(tag, image) ==
  /\ registered' = IF CreateGLTextureReturns(image)
                     THEN Append(registered, << tag, glNextName >>)
                     ELSE registered
  /\ calledTags' = calledTags \cup {tag}
  /\ tagReused' = (tagReused \/ tag \in calledTags)
  /\ UNCHANGED destroyed

\* One CreateGLTexture call.
CreateGLTexture(tag, image) ==
  /\ \E stored \in StoredEntries(TexState, tag) :
       SetTexState(CreateGLTextureOn(TexState, tag, image, stored))
  /\ LogCreate(tag, image)
  /\ last' = Call("CreateGLTexture", 76, tag,
                  IF image.decoded THEN image.colorChannels ELSE 0,
                  CreateGLTextureReturns(image))

BindGLTextures ==
  /\ SetTexState(BindGLTexturesOn(TexState))
  /\ last' = Call("BindGLTextures", 148, "", 0, TRUE)

DestroyGLTextures ==
  /\ SetTexState(DestroyGLTexturesOn(TexState))
  /\ last' = Call("DestroyGLTextures", 164, "", 0, TRUE)

\* ------------------------------------------------------- construction

\* The texture state of a new SceneManager in a new GL context.
EmptyTex ==
  [ ids |-> << >>, loaded |-> 0, next |-> 1, active |-> 0,
    bound |-> [u \in Units |-> 0] ]

\* The uniforms and the pass state before any call.
InitRest ==
  /\ m_pShaderManager \in ShaderManagers
  /\ model = << >>
  /\ bUseTexture = FALSE
  /\ objectTexture = 0
  /\ objectColor = << 0, 0, 0, 0 >>
  /\ UVscale = << 0, 0 >>
  /\ material = [diffuseColor |-> << 0, 0, 0 >>, specularColor |-> << 0, 0, 0 >>,
                 shininess |-> 0]
  /\ crashed = FALSE
  /\ pc = 0
  /\ frame = 0
  /\ scaleXYZ = << 0, 0, 0 >>
  /\ rotationDegrees = << 0, 0, 0 >>
  /\ positionXYZ = << 0, 0, 0 >>
  /\ last = Call("SceneManager", 50, "", 0, TRUE)
  /\ objOps = << >>
  /\ tagReused = FALSE
  /\ destroyed = FALSE
  /\ calls = 0
  /\ prepareCalls = << >>
  /\ draws = << >>

\* SceneManager::SceneManager: the shader manager is the caller's; the
\* registries start empty.
Init ==
  /\ InitRest
  /\ m_textureIDs = EmptyTex.ids
  /\ m_loadedTextures = EmptyTex.loaded
  /\ glNextName = EmptyTex.next
  /\ glActiveUnit = EmptyTex.active
  /\ glBound = EmptyTex.bound
  /\ m_objectMaterials = << >>
  /\ meshLoads = << >>
  /\ bUseLighting = FALSE
  /\ lights = << >>
  /\ prepared = FALSE
  /\ registered = << >>
  /\ calledTags = {}

\* ------------------------------------------------ the material registry

Material(tag, diffuse, specular, shininess) ==
  [tag |-> tag, diffuseColor |-> diffuse, specularColor |-> specular,
   shininess |-> shininess]

\* The four materials DefineObjectMaterials pushes, in order.
SceneMaterials ==
  << Material("stone", << 20, 30, 30 >>, << 50, 50, 50 >>, 1000),
     Material("water", << 50, 50, 80 >>, << 50, 50, 60 >>, 5000),
     Material("glass", << 70, 70, 70 >>, << 90, 90, 90 >>, 8000),
     Material("metal", << 70, 70, 70 >>, << 90, 90, 90 >>, 8000) >>

DefineObjectMaterials ==
  /\ m_objectMaterials' = m_objectMaterials \o SceneMaterials
  /\ UNCHANGED << shaderVars, crashed >>

\* FindMaterial's loop as it would be if a later entry with the same tag
\* replaced an earlier match.
FindMaterialFrom_LastMatch(tag, index) ==
  LET matches == { i \in index..(Len(m_objectMaterials) - 1) :
                     m_objectMaterials[i + 1].tag = tag }
  IN  IF matches = {}
        THEN Len(m_objectMaterials)
        ELSE CHOOSE i \in matches : \A j \in matches : j <= i

RECURSIVE FindMaterialFrom(_, _)
\* The while loop of FindMaterial from `index` on (0-based): the index of the
\* first entry carrying `tag`, or the registry's size if none does.
FindMaterialFrom(tag, index) ==
  IF index < Len(m_objectMaterials)
    THEN IF m_objectMaterials[index + 1].tag = tag
           THEN index
           ELSE FindMaterialFrom(tag, index + 1)
    ELSE Len(m_objectMaterials)

\* Whether some entry of the material registry carries `tag`.
MaterialDefined(tag) == FindMaterialFrom(tag, 0) < Len(m_objectMaterials)

\* FindMaterial's return value.
FindMaterial(tag) ==
  IF Len(m_objectMaterials) = 0 THEN FALSE ELSE TRUE

Coefficients(m) ==
  [diffuseColor |-> m.diffuseColor, specularColor |-> m.specularColor,
   shininess |-> m.shininess]

\* What a local OBJECT_MATERIAL that nothing was assigned to can hold: the
\* bytes a previous call left on the stack (among them the values the
\* uniforms hold now) or anything else.
IndeterminateMaterials ==
  { material,
    [diffuseColor |-> << -1, -1, -1 >>, specularColor |-> << -1, -1, -1 >>,
     shininess |-> -1],
    [diffuseColor |-> << 7, 7, 7 >>, specularColor |-> << 7, 7, 7 >>,
     shininess |-> 7] }

\* The values FindMaterial leaves in its out-parameter.
FoundMaterials(tag) ==
  IF MaterialDefined(tag)
    THEN { Coefficients(m_objectMaterials[FindMaterialFrom(tag, 0) + 1]) }
    ELSE IndeterminateMaterials

\* --------------------------------------------------- the shader setters

unchangedUniforms == UNCHANGED shaderVars

\* SetTransformations' matrix as it would be with the product of line 287
\* written in the opposite order.
ModelMatrix_ScaleLast(scale, Xrot, Yrot, Zrot, position) ==
  << [scale |-> scale], [rotateX |-> Xrot], [rotateY |-> Yrot],
     [rotateZ |-> Zrot], [translate |-> position] >>

\* The matrix SetTransformations builds, kept as its factors in the order
\* of the product of line 287.
ModelMatrix(scale, Xrot, Yrot, Zrot, position) ==
  << [translate |-> position], [rotateZ |-> Zrot], [rotateY |-> Yrot],
     [rotateX |-> Xrot], [scale |-> scale] >>

SetTransformations(scale, Xrot, Yrot, Zrot, position) ==
  /\ IF m_pShaderManager # NULL
       THEN /\ model' = ModelMatrix(scale, Xrot, Yrot, Zrot, position)
            /\ UNCHANGED << bUseTexture, bUseLighting, objectTexture, objectColor,
                            UVscale, material, lights >>
       ELSE unchangedUniforms
  /\ UNCHANGED << m_objectMaterials, crashed >>

\* SetShaderColor as it would be if it also switched lighting back on.
SetShaderColor_RestoresLighting(r, g, b, a) ==
  /\ IF m_pShaderManager # NULL
       THEN /\ bUseTexture' = FALSE
            /\ objectColor' = << r, g, b, a >>
            /\ bUseLighting' = TRUE
            /\ UNCHANGED << model, objectTexture, UVscale, material, lights >>
       ELSE unchangedUniforms
  /\ UNCHANGED << m_objectMaterials, crashed >>

SetShaderColor(r, g, b, a) ==
  /\ IF m_pShaderManager # NULL
       THEN /\ bUseTexture' = FALSE
            /\ objectColor' = << r, g, b, a >>
            /\ UNCHANGED << model, bUseLighting, objectTexture, UVscale, material,
                            lights >>
       ELSE unchangedUniforms
  /\ UNCHANGED << m_objectMaterials, crashed >>

\* SetShaderTexture as it would be without its write of bUseTexture.
SetShaderTexture_NoFlag(textureTag) ==
  /\ IF m_pShaderManager # NULL
       THEN /\ objectTexture' = FindTextureSlot(textureTag)
            /\ UNCHANGED << model, bUseTexture, bUseLighting, objectColor, UVscale,
                            material, lights >>
       ELSE unchangedUniforms
  /\ UNCHANGED << m_objectMaterials, crashed >>

SetShaderTexture(textureTag) ==
  /\ IF m_pShaderManager # NULL
       THEN /\ bUseTexture' = TRUE
            /\ objectTexture' = FindTextureSlot(textureTag)
            /\ UNCHANGED << model, bUseLighting, objectColor, UVscale, material,
                            lights >>
       ELSE unchangedUniforms
  /\ UNCHANGED << m_objectMaterials, crashed >>

SetTextureUVScale(u, v) ==
  /\ IF m_pShaderManager # NULL
       THEN /\ UVscale' = << u, v >>
            /\ UNCHANGED << model, bUseTexture, bUseLighting, objectTexture,
                            objectColor, material, lights >>
       ELSE unchangedUniforms
  /\ UNCHANGED << m_objectMaterials, crashed >>

\* SetShaderMaterial: with a non-empty registry FindMaterial's result is
\* written through m_pShaderManager, which is not tested for NULL here.
SetShaderMaterial(materialTag) ==
  /\ IF Len(m_objectMaterials) > 0 /\ FindMaterial(materialTag)
       THEN IF m_pShaderManager = NULL
              THEN crashed' = TRUE /\ unchangedUniforms
              ELSE /\ material' \in FoundMaterials(materialTag)
                   /\ UNCHANGED << model, bUseTexture, bUseLighting, objectTexture,
                                   objectColor, UVscale, lights, crashed >>
       ELSE UNCHANGED << shaderVars, crashed >>
  /\ UNCHANGED m_objectMaterials

\* m_pShaderManager->setBoolValue(g_UseLightingName, value), as written
\* inline in SetupSceneLights and RenderScene.
SetUseLighting(value) ==
  /\ IF m_pShaderManager = NULL
       THEN crashed' = TRUE /\ unchangedUniforms
       ELSE /\ bUseLighting' = value
            /\ UNCHANGED << model, bUseTexture, objectTexture, objectColor, UVscale,
                            material, lights, crashed >>
  /\ UNCHANGED m_objectMaterials

Light(name, position, ambient, diffuse, specular) ==
  [name |-> name, position |-> position, ambient |-> ambient,
   diffuse |-> diffuse, specular |-> specular, bActive |-> TRUE]

\* The light uniforms SetupSceneLights writes (for the directional light
\* `position` holds its direction).
SceneLights ==
  << Light("pointLights[0]", << 500, 500, 0 >>, << 30, 30, 30 >>,
           << 60, 60, 50 >>, << 50, 30, 0 >>),
     Light("pointLights[1]", << 400, 400, -600 >>, << 10, 10, 10 >>,
           << 80, 80, 60 >>, << 50, 50, 40 >>),
     Light("directionalLight", << -100, -200, 200 >>, << 50, 50, 50 >>,
           << 70, 70, 70 >>, << 30, 30, 30 >>) >>

SetupSceneLights ==
  /\ IF m_pShaderManager = NULL
       THEN crashed' = TRUE /\ unchangedUniforms
       ELSE /\ bUseLighting' = TRUE
            /\ lights' = SceneLights
            /\ UNCHANGED << model, bUseTexture, objectTexture, objectColor, UVscale,
                            material, crashed >>
  /\ UNCHANGED m_objectMaterials

\* A ShapeMeshes draw call: it reads the state set before it and changes
\* none of it.
DrawMesh(mesh) ==
  UNCHANGED << shaderVars, m_objectMaterials, crashed >>

\* ---------------------------------------- SpecRegistry: registry calls

RECURSIVE Registrations(_)
\* The texture state after n successful CreateGLTexture calls on a new
\* SceneManager, the i-th with tag TagOrder[i] and an RGB image.
Registrations(n) ==
  IF n = 0
    THEN EmptyTex
    ELSE LET t == Registrations(n - 1)
         IN  CreateGLTextureOn(t, TagOrder[n], [decoded |-> TRUE, colorChannels |-> 3],
                               [ID |-> t.next, tag |-> TagOrder[n]])

\* SpecRegistry starts from a new SceneManager or from one two entries short
\* of a full registry.
InitialRegistrations == {0, MaxTextures - 2}

InitRegistry ==
  /\ InitRest
  /\ \E n \in InitialRegistrations :
       /\ m_textureIDs = Registrations(n).ids
       /\ m_loadedTextures = Registrations(n).loaded
       /\ glNextName = Registrations(n).next
       /\ glActiveUnit = Registrations(n).active
       /\ glBound = Registrations(n).bound
       /\ registered = [i \in 1..n |-> << TagOrder[i], Registrations(i - 1).next >>]
       /\ calledTags = { TagOrder[i] : i \in 1..n }
  /\ m_objectMaterials = << >>
  /\ meshLoads = << >>
  /\ bUseLighting = FALSE
  /\ lights = << >>
  /\ prepared = FALSE

\* The tag of the next call: the next new one, the first one called or the
\* one called last.
NextTags ==
  LET n == Cardinality(calledTags)
  IN  {TagOrder[n + 1]} \cup (IF n > 0 THEN {TagOrder[1], TagOrder[n]} ELSE {})

RegCreateGLTexture ==
  /\ calls < MaxRegistryCalls
  /\ m_loadedTextures < MaxTextures + MaxOverflow
  /\ \E tag \in NextTags, image \in Images : CreateGLTexture(tag, image)
  /\ calls' = calls + 1
  /\ UNCHANGED nonTexVars

RegBindGLTextures ==
  /\ calls < MaxRegistryCalls
  /\ BindGLTextures
  /\ calls' = calls + 1
  /\ UNCHANGED << nonTexVars, logVars >>

RegDestroyGLTextures ==
  /\ calls < MaxRegistryCalls
  /\ DestroyGLTextures
  /\ destroyed' = TRUE
  /\ calls' = calls + 1
  /\ UNCHANGED << nonTexVars, registered, calledTags, tagReused >>

NextRegistry == RegCreateGLTexture \/ RegBindGLTextures \/ RegDestroyGLTextures

SpecRegistry == InitRegistry /\ [][NextRegistry]_vars

\* --------------------------------- SpecShader: material and shader calls

\* The inputs SpecShader calls the setters with.
SomeVectors == { << 100, 100, 100 >>, << 200, 100, 100 >> }
SomeColors == { << 80, 80, 70, 70 >>, << 30, 30, 30, 100 >> }
SomeUVScales == { << 100, 100 >>, << 200, 400 >> }
SomeTextureTags == { "paver", "rock" }
SomeMaterialTags == { "stone", "glass", "wood" }

shaderFrame == << m_pShaderManager, texVars, meshLoads, passVars, localVars, logVars,
                 prepareCalls, draws >>

ShCall(op, tag) ==
  /\ ~crashed
  /\ calls < MaxShaderCalls
  /\ calls' = calls + 1
  /\ last' = Call(op, 0, tag, 0, TRUE)
  /\ UNCHANGED shaderFrame

ShDefineObjectMaterials ==
  ShCall("DefineObjectMaterials", "") /\ DefineObjectMaterials

ShSetupSceneLights ==
  ShCall("SetupSceneLights", "") /\ SetupSceneLights

ShSetTransformations ==
  \E scale \in SomeVectors, position \in SomeVectors :
    ShCall("SetTransformations", "") /\ SetTransformations(scale, 0, 90, 0, position)

ShSetShaderColor ==
  \E c \in SomeColors :
    ShCall("SetShaderColor", "") /\ SetShaderColor(c[1], c[2], c[3], c[4])

ShSetShaderTexture ==
  \E tag \in SomeTextureTags :
    ShCall("SetShaderTexture", tag) /\ SetShaderTexture(tag)

ShSetTextureUVScale ==
  \E uv \in SomeUVScales :
    ShCall("SetTextureUVScale", "") /\ SetTextureUVScale(uv[1], uv[2])

ShSetShaderMaterial ==
  \E tag \in SomeMaterialTags :
    ShCall("SetShaderMaterial", tag) /\ SetShaderMaterial(tag)

ShDrawMesh ==
  ShCall("DrawMesh", "DrawBoxMesh()") /\ DrawMesh("DrawBoxMesh()")

NextShader ==
  \/ ShDefineObjectMaterials
  \/ ShSetupSceneLights
  \/ ShSetTransformations
  \/ ShSetShaderColor
  \/ ShSetShaderTexture
  \/ ShSetTextureUVScale
  \/ ShSetShaderMaterial
  \/ ShDrawMesh

\* SpecShader starts from a new SceneManager, with the scene's first two
\* textures registered or none.
InitShader ==
  /\ InitRest
  /\ \E n \in {0, 2} :
       /\ m_textureIDs = Registrations(n).ids
       /\ m_loadedTextures = Registrations(n).loaded
       /\ glNextName = Registrations(n).next
       /\ glActiveUnit = Registrations(n).active
       /\ glBound = Registrations(n).bound
       /\ registered = [i \in 1..n |-> << TagOrder[i], Registrations(i - 1).next >>]
       /\ calledTags = { TagOrder[i] : i \in 1..n }
  /\ m_objectMaterials = << >>
  /\ meshLoads = << >>
  /\ bUseLighting = FALSE
  /\ lights = << >>
  /\ prepared = FALSE

SpecShader == InitShader /\ [][NextShader]_vars

\* ------------------------------------ SpecTransform: the model matrix

\* cos and sin of an angle that is a multiple of 90 degrees.
Cos90(degrees) ==
  CASE degrees % 360 = 0 -> 1
    [] degrees % 360 = 90 -> 0
    [] degrees % 360 = 180 -> -1
    [] degrees % 360 = 270 -> 0
Sin90(degrees) ==
  CASE degrees % 360 = 0 -> 0
    [] degrees % 360 = 90 -> 1
    [] degrees % 360 = 180 -> 0
    [] degrees % 360 = 270 -> -1

\* The 4 x 4 matrix of one factor, as rows: glm::translate, glm::rotate
\* about the z, y and x axis, glm::scale.
Mat4(f) ==
  IF "translate" \in DOMAIN f
    THEN << << 1, 0, 0, f.translate[1] >>,
            << 0, 1, 0, f.translate[2] >>,
            << 0, 0, 1, f.translate[3] >>,
            << 0, 0, 0, 1 >> >>
  ELSE IF "rotateZ" \in DOMAIN f
    THEN << << Cos90(f.rotateZ), -Sin90(f.rotateZ), 0, 0 >>,
            << Sin90(f.rotateZ), Cos90(f.rotateZ), 0, 0 >>,
            << 0, 0, 1, 0 >>,
            << 0, 0, 0, 1 >> >>
  ELSE IF "rotateY" \in DOMAIN f
    THEN << << Cos90(f.rotateY), 0, Sin90(f.rotateY), 0 >>,
            << 0, 1, 0, 0 >>,
            << -Sin90(f.rotateY), 0, Cos90(f.rotateY), 0 >>,
            << 0, 0, 0, 1 >> >>
  ELSE IF "rotateX" \in DOMAIN f
    THEN << << 1, 0, 0, 0 >>,
            << 0, Cos90(f.rotateX), -Sin90(f.rotateX), 0 >>,
            << 0, Sin90(f.rotateX), Cos90(f.rotateX), 0 >>,
            << 0, 0, 0, 1 >> >>
  ELSE << << f.scale[1], 0, 0, 0 >>,
          << 0, f.scale[2], 0, 0 >>,
          << 0, 0, f.scale[3], 0 >>,
          << 0, 0, 0, 1 >> >>

\* glm's operator* on two matrices.
MatMul(A, B) ==
  [ r \in 1..4 |->
      [ c \in 1..4 |->
          A[r][1] * B[1][c] + A[r][2] * B[2][c] + A[r][3] * B[3][c]
            + A[r][4] * B[4][c] ] ]

RECURSIVE Product(_)
\* The product of the factors of a model matrix, left to right; each
\* operand is computed once, then multiplied.
Product(factors) ==
  IF Len(factors) = 1
    THEN Mat4(factors[1])
    ELSE CHOOSE M \in { MatMul(A, B) :
                          A \in { Product(SubSeq(factors, 1, Len(factors) - 1)) },
                          B \in { Mat4(factors[Len(factors)]) } } : TRUE

\* The arguments SpecTransform calls SetTransformations with: whole-number
\* scales and positions, rotations by multiples of 90 degrees.
SomeScales == { << 1, 1, 1 >>, << 2, 1, 1 >>, << 1, 2, 3 >> }
SomePositions == { << 0, 0, 0 >>, << 3, 0, 0 >>, << 1, -2, 4 >> }
RightAngles == { 0, 90, 180, 270 }

\* The caller assigns its three locals and passes them to
\* SetTransformations, as RenderScene does (lines 539-555).
TrSetTransformations ==
  \E scale \in SomeScales, position \in SomePositions,
     Xrot \in RightAngles, Yrot \in RightAngles, Zrot \in RightAngles :
    /\ ~crashed
    /\ calls < MaxTransformCalls
    /\ calls' = calls + 1
    /\ scaleXYZ' = scale
    /\ rotationDegrees' = << Xrot, Yrot, Zrot >>
    /\ positionXYZ' = position
    /\ SetTransformations(scale, Xrot, Yrot, Zrot, position)
    /\ last' = Call("SetTransformations", 0, "", 0, TRUE)
    /\ UNCHANGED << m_pShaderManager, texVars, meshLoads, passVars, logVars,
                    prepareCalls, draws >>

NextTransform == TrSetTransformations

SpecTransform == Init /\ [][NextTransform]_vars

\* ------------------------------- SpecMaterial: material registry lookups

\* How many entries the material registry holds when SpecMaterial starts.
MaxMaterials == 3

\* The entries those registries are built from: the scene's stone, a second
\* definition of "stone" with other values, and the scene's glass.
SomeMaterials ==
  { SceneMaterials[1],
    Material("stone", << 90, 10, 10 >>, << 10, 20, 30 >>, 200),
    SceneMaterials[3] }

\* The registries a DefineObjectMaterials can have built with them.
SomeRegistries ==
  UNION { [1..n -> SomeMaterials] : n \in 0..MaxMaterials }

\* SpecMaterial starts from a SceneManager whose material registry holds any
\* of those registries; DefineObjectMaterials and SetShaderMaterial are then
\* called in any order.
InitMaterial ==
  /\ InitRest
  /\ m_textureIDs = EmptyTex.ids
  /\ m_loadedTextures = EmptyTex.loaded
  /\ glNextName = EmptyTex.next
  /\ glActiveUnit = EmptyTex.active
  /\ glBound = EmptyTex.bound
  /\ m_objectMaterials \in SomeRegistries
  /\ meshLoads = << >>
  /\ bUseLighting = FALSE
  /\ lights = << >>
  /\ prepared = FALSE
  /\ registered = << >>
  /\ calledTags = {}

NextMaterial == ShDefineObjectMaterials \/ ShSetShaderMaterial

SpecMaterial == InitMaterial /\ [][NextMaterial]_vars

\* ------------------------------------------------------- PrepareScene

\* The textures LoadTextures registers, in order (lines 504-515).
SceneTextures == << "moss", "paver", "stonetop", "rock", "water", "stone" >>

\* What stbi_load can hand back for the scene's JPEG files: no image, a
\* greyscale image or an RGB image.
SceneImages ==
  { NoImage, [decoded |-> TRUE, colorChannels |-> 1],
    [decoded |-> TRUE, colorChannels |-> 3] }

\* What m_textureIDs[m_loadedTextures] reads back as after a registration:
\* past the end of the array, `foreign` says whether it is the entry written.
Stored(t, tag, foreign) ==
  IF t.loaded >= MaxTextures /\ foreign
    THEN ForeignEntry
    ELSE [ID |-> t.next, tag |-> tag]

RECURSIVE LoadTexturesFrom(_, _, _, _)
\* LoadTextures as it would be if it returned at the first CreateGLTexture
\* call that fails.
LoadTexturesFrom_StopsAtFailure(acc, i, images, foreign) ==
  IF i > Len(SceneTextures)
    THEN acc
    ELSE LET tag == SceneTextures[i]
             ok == CreateGLTextureReturns(images[i])
             after ==
               [ tex |-> CreateGLTextureOn(acc.tex, tag, images[i],
                                           Stored(acc.tex, tag, foreign)),
                 registered |-> IF ok THEN Append(acc.registered, << tag, acc.tex.next >>)
                                      ELSE acc.registered,
                 calledTags |-> acc.calledTags \cup {tag},
                 tagReused |-> (acc.tagReused \/ tag \in acc.calledTags),
                 creates |-> acc.creates + 1,
                 bReturn |-> ok ]
         IN  IF ok THEN LoadTexturesFrom(after, i + 1, images, foreign) ELSE after

\* The CreateGLTexture calls of LoadTextures from the i-th on, on the
\* texture state and registration log `acc` (`creates` counts the calls);
\* images[i] is what stbi_load returns for the i-th file.
LoadTexturesFrom(acc, i, images, foreign) ==
  IF i > Len(SceneTextures)
    THEN acc
    ELSE LET tag == SceneTextures[i]
             ok == CreateGLTextureReturns(images[i])
         IN  LoadTexturesFrom(
               [ tex |-> CreateGLTextureOn(acc.tex, tag, images[i],
                                           Stored(acc.tex, tag, foreign)),
                 registered |-> IF ok THEN Append(acc.registered, << tag, acc.tex.next >>)
                                      ELSE acc.registered,
                 calledTags |-> acc.calledTags \cup {tag},
                 tagReused |-> (acc.tagReused \/ tag \in acc.calledTags),
                 creates |-> acc.creates + 1,
                 bReturn |-> ok ],
               i + 1, images, foreign)

LoadTextures(images, foreign) ==
  LoadTexturesFrom([ tex |-> TexState, registered |-> registered,
                     calledTags |-> calledTags, tagReused |-> tagReused,
                     creates |-> 0, bReturn |-> FALSE ],
                   1, images, foreign)

\* PrepareScene's mesh loads as they would be with the box mesh loaded a
\* second time in place of the sphere.
SceneMeshLoads_BoxTwice ==
  << "LoadPlaneMesh", "LoadCylinderMesh", "LoadConeMesh", "LoadBoxMesh",
     "LoadBoxMesh" >>

\* The mesh loads of PrepareScene, in order (lines 487-491).
SceneMeshLoads ==
  << "LoadPlaneMesh", "LoadCylinderMesh", "LoadConeMesh", "LoadBoxMesh",
     "LoadSphereMesh" >>

\* PrepareScene: DefineObjectMaterials, SetupSceneLights (which ends the run
\* on a null shader manager), the mesh loads, LoadTextures, BindGLTextures.
PrepareScene ==
  /\ ~crashed
  /\ ~prepared
  /\ pc = 0
  /\ prepared' = TRUE
  /\ m_objectMaterials' = m_objectMaterials \o SceneMaterials
  /\ IF m_pShaderManager = NULL
       THEN /\ crashed' = TRUE
            /\ prepareCalls' = prepareCalls \o << "DefineObjectMaterials", "SetupSceneLights" >>
            /\ UNCHANGED << texVars, meshLoads, shaderVars, logVars >>
       ELSE /\ bUseLighting' = TRUE
            /\ lights' = SceneLights
            /\ meshLoads' = meshLoads \o SceneMeshLoads
            /\ \E images \in [1..Len(SceneTextures) -> SceneImages],
                  foreign \in BOOLEAN :
                 LET loaded == LoadTextures(images, foreign)
                 IN  /\ foreign => loaded.tex.loaded > MaxTextures
                     /\ SetTexState(BindGLTexturesOn(loaded.tex))
                     /\ registered' = loaded.registered
                     /\ calledTags' = loaded.calledTags
                     /\ tagReused' = loaded.tagReused
                     /\ prepareCalls' =
                          prepareCalls
                            \o << "DefineObjectMaterials", "SetupSceneLights" >>
                            \o SceneMeshLoads
                            \o [i \in 1..loaded.creates |-> "CreateGLTexture"]
                            \o << "BindGLTextures" >>
            /\ UNCHANGED << model, bUseTexture, objectTexture, objectColor, UVscale,
                            material, crashed, destroyed >>
  /\ last' = Call("PrepareScene", 476, "", 0, TRUE)
  /\ UNCHANGED << m_pShaderManager, pc, frame, objOps, localVars, calls, draws >>

\* -------------------------------------------------------- RenderScene

St(op, line, tag, v) == [op |-> op, line |-> line, tag |-> tag, v |-> v]

Scale(line, x, y, z) == St("scaleXYZ", line, "", << x, y, z >>)
Rotation(line, x, y, z) == St("rotationDegrees", line, "", << x, y, z >>)
Position(line, x, y, z) == St("positionXYZ", line, "", << x, y, z >>)
\* SetTransformations with the rotation locals, or with literal angles.
Transform(line) == St("SetTransformations", line, "locals", << >>)
TransformBy(line, x, y, z) == St("SetTransformations", line, "literals", << x, y, z >>)
Texture(line, tag) == St("SetShaderTexture", line, tag, << >>)
Color(line, r, g, b, a) == St("SetShaderColor", line, "", << r, g, b, a >>)
UV(line, u, v) == St("SetTextureUVScale", line, "", << u, v >>)
Mat(line, tag) == St("SetShaderMaterial", line, tag, << >>)
Lighting(line, value) == St("SetUseLighting", line, "", << IF value THEN 1 ELSE 0 >>)
Draw(line, mesh) == St("DrawMesh", line, mesh, << >>)

\* The statements of RenderScene after its declarations, in order, each
\* with its line in SceneManager.cpp.
RenderSceneBody ==
  << Scale(539, 2000, 100, 1000), Rotation(542, 0, 0, 0), Position(547, 0, 0, 0),
     Transform(550), Texture(558, "paver"), UV(559, 500, 500), Mat(560, "stone"),
     Draw(563, "DrawPlaneMesh()"),
     \* pool water surface
     Scale(570, 1600, 50, 800), Rotation(573, 0, 0, 0), Position(578, -500, 10, 0),
     Transform(581), Texture(589, "water"), UV(590, 100, 100), Mat(591, "water"),
     Draw(594, "DrawBoxMesh()"),
     \* pool wall
     Scale(601, 2000, 40, 1000), Rotation(604, 0, 0, 0), Position(609, -550, 10, 0),
     Transform(612), Texture(620, "stone"), UV(621, 200, 400), Mat(622, "stone"),
     Draw(627, "DrawBoxMesh()"),
     \* hot tub water
     Scale(641, 350, 180, 350), Rotation(644, 0, 0, 0), Position(649, 500, 0, 0),
     Transform(652), Texture(660, "water"), UV(661, 10, 10), Mat(662, "water"),
     Draw(665, "DrawCylinderMesh(true,true,false)"),
     \* hot tub wall
     Scale(672, 350, 180, 350), Rotation(675, 0, 30, 0), Position(680, 500, 0, 0),
     Transform(683), Texture(690, "stone"), UV(691, 200, 400), Mat(692, "stone"),
     Draw(694, "DrawCylinderMesh(false,true,true)"),
     \* hot tub ledge
     Scale(701, 350, 30, 350), Rotation(704, 0, 0, 180), Position(709, 500, 210, 0),
     Transform(712), Texture(720, "stonetop"), Mat(721, "stone"),
     Draw(724, "DrawCylinderMesh(false,false,true)"),
     \* hot tub ledge, second draw
     Scale(731, 351, 30, 351),
     Draw(734, "DrawCylinderMesh(false,false,true)"),
     \* spillover spout
     Scale(742, 10, 50, 200), Rotation(745, 0, 25, 0), Position(750, 200, 150, 170),
     Transform(753), Texture(761, "water"), UV(762, 10, 10), Mat(763, "water"),
     Draw(764, "DrawBoxMesh()"),
     \* waterfall
     Scale(770, 10, 150, 180), Rotation(773, 0, 25, 0), Position(778, 200, 50, 170),
     Transform(781), Texture(789, "water"), UV(790, 10, 1), Mat(791, "water"),
     Draw(792, "DrawBoxMesh()"),
     \* back wall
     Scale(798, 1700, 150, 100), Rotation(801, 0, 0, 0), Position(806, -500, 110, -600),
     Transform(809), Texture(817, "paver"), Mat(818, "stone"), UV(819, 400, 200),
     Draw(820, "DrawBoxMesh()"),
     \* back wall, tall
     Scale(825, 800, 400, 100), Rotation(828, 0, 0, 0), Position(833, 700, 110, -600),
     Transform(836), Texture(844, "paver"), Mat(845, "stone"), UV(846, 400, 200),
     Draw(847, "DrawBoxMesh()"),
     \* back wall behind the spa
     Scale(852, 1200, 400, 100), Rotation(855, 0, 90, 0), Position(860, 1100, 110, -50),
     Transform(863), Texture(871, "paver"), Mat(872, "stone"), UV(873, 400, 200),
     Draw(874, "DrawBoxMesh()"),
     \* hot tub platform
     Scale(880, 1000, 100, 600), Rotation(883, 0, 90, 0), Position(888, 750, 10, 0),
     Transform(891), Texture(899, "paver"), Mat(900, "stone"), UV(901, 200, 100),
     Draw(902, "DrawBoxMesh()"),
     \* light bulb
     Lighting(912, FALSE),
     Scale(915, 40, 40, 40), Position(917, 400, 400, -600),
     Transform(919), Color(926, 80, 80, 70, 70), Mat(927, "glass"),
     Draw(929, "DrawSphereMesh()"),
     Lighting(930, FALSE),
     \* light post
     Scale(933, 20, 170, 20), Position(934, 400, 200, -600),
     TransformBy(935, 0, 0, 0), Color(936, 30, 30, 30, 100),
     Draw(937, "DrawCylinderMesh(false,false,true)"),
     \* light fixture
     Scale(941, 100, 150, 100), Rotation(944, 0, 0, 0), Position(949, 400, 400, -600),
     Transform(952), Color(959, 75, 75, 60, 50), Mat(961, "glass"), UV(962, 400, 200),
     Draw(963, "DrawBoxMesh()"),
     \* torch post
     Scale(971, 13, 600, 13), Position(972, 1000, 10, -500),
     TransformBy(973, 0, 0, 0), Color(974, 10, 10, 10, 100), Mat(975, "metal"),
     Draw(976, "DrawCylinderMesh(false,false,true)"),
     \* lamp head
     Scale(979, 60, 60, 60), Position(980, 1000, 620, -500),
     TransformBy(981, 180, 0, 0), Color(982, 30, 30, 30, 100), Mat(983, "metal"),
     Draw(984, "DrawConeMesh()") >>

\* The statement RenderScene is about to execute.
AtEnd == pc = Len(RenderSceneBody) + 1
Stmt == RenderSceneBody[pc]
At(op) == ~crashed /\ pc \in 1..Len(RenderSceneBody) /\ Stmt.op = op

\* The state-setting calls RenderScene made since its previous draw.
SincePreviousDraw == IF last.op = "DrawMesh" THEN << >> ELSE objOps

sceneFrame == << m_pShaderManager, texVars, meshLoads, prepared, frame, logVars, calls,
                prepareCalls >>

\* A draw call as `draws` records it: the draw statement, whether
\* PrepareScene had run, and the uniforms in effect when it is made.
DrawRecord(line, mesh) ==
  [ line |-> line, mesh |-> mesh, prepared |-> prepared,
    model |-> model, bUseTexture |-> bUseTexture,
    bUseLighting |-> bUseLighting, objectTexture |-> objectTexture,
    objectColor |-> objectColor, UVscale |-> UVscale, material |-> material ]

\* RenderScene's statements as they would be if a draw that follows the
\* previous draw with no state-setting call in between were merged into it.
Step_MergesRepeatedDraw(noted) ==
  /\ pc' = pc + 1
  /\ last' = IF Stmt.op = "DrawMesh" /\ last.op = "DrawMesh"
               THEN last
               ELSE Call(Stmt.op, Stmt.line, Stmt.tag, 0, TRUE)
  /\ objOps' = IF noted THEN Append(SincePreviousDraw, Stmt.op) ELSE SincePreviousDraw
  /\ draws' = IF Stmt.op = "DrawMesh" /\ SincePreviousDraw # << >>
                THEN [draws EXCEPT ![frame] = Append(@, DrawRecord(Stmt.line, Stmt.tag))]
                ELSE draws
  /\ UNCHANGED sceneFrame

\* The bookkeeping of one statement of RenderScene: `noted` says whether it
\* is one of the state-setting calls that objOps lists.
Step(noted) ==
  /\ pc' = pc + 1
  /\ last' = Call(Stmt.op, Stmt.line, Stmt.tag, 0, TRUE)
  /\ objOps' = IF noted THEN Append(SincePreviousDraw, Stmt.op) ELSE SincePreviousDraw
  /\ draws' = IF Stmt.op = "DrawMesh"
                THEN [draws EXCEPT ![frame] = Append(@, DrawRecord(Stmt.line, Stmt.tag))]
                ELSE draws
  /\ UNCHANGED sceneFrame

\* RenderScene is entered: the rotation locals are declared as 0.0f; the two
\* vectors are assigned before they are read.
RenderSceneBegin ==
  /\ ~crashed
  /\ pc = 0
  /\ frame < MaxFrames
  /\ frame' = frame + 1
  /\ pc' = 1
  /\ scaleXYZ' = << 0, 0, 0 >>
  /\ rotationDegrees' = << 0, 0, 0 >>
  /\ positionXYZ' = << 0, 0, 0 >>
  /\ objOps' = << >>
  /\ draws' = Append(draws, << >>)
  /\ last' = Call("RenderScene", 525, "", 0, TRUE)
  /\ UNCHANGED << m_pShaderManager, texVars, m_objectMaterials, meshLoads,
                  shaderVars, crashed, prepared, logVars, calls, prepareCalls >>

RsAssignScale ==
  /\ At("scaleXYZ")
  /\ scaleXYZ' = Stmt.v
  /\ Step(FALSE)
  /\ UNCHANGED << rotationDegrees, positionXYZ, m_objectMaterials, shaderVars, crashed >>

RsAssignRotation ==
  /\ At("rotationDegrees")
  /\ rotationDegrees' = Stmt.v
  /\ Step(FALSE)
  /\ UNCHANGED << scaleXYZ, positionXYZ, m_objectMaterials, shaderVars, crashed >>

RsAssignPosition ==
  /\ At("positionXYZ")
  /\ positionXYZ' = Stmt.v
  /\ Step(FALSE)
  /\ UNCHANGED << scaleXYZ, rotationDegrees, m_objectMaterials, shaderVars, crashed >>

RsSetTransformations ==
  /\ At("SetTransformations")
  /\ LET r == IF Stmt.tag = "locals" THEN rotationDegrees ELSE Stmt.v
     IN  SetTransformations(scaleXYZ, r[1], r[2], r[3], positionXYZ)
  /\ Step(TRUE)
  /\ UNCHANGED localVars

RsSetShaderTexture ==
  /\ At("SetShaderTexture")
  /\ SetShaderTexture(Stmt.tag)
  /\ Step(TRUE)
  /\ UNCHANGED localVars

RsSetShaderColor ==
  /\ At("SetShaderColor")
  /\ SetShaderColor(Stmt.v[1], Stmt.v[2], Stmt.v[3], Stmt.v[4])
  /\ Step(TRUE)
  /\ UNCHANGED localVars

RsSetTextureUVScale ==
  /\ At("SetTextureUVScale")
  /\ SetTextureUVScale(Stmt.v[1], Stmt.v[2])
  /\ Step(TRUE)
  /\ UNCHANGED localVars

RsSetShaderMaterial ==
  /\ At("SetShaderMaterial")
  /\ SetShaderMaterial(Stmt.tag)
  /\ Step(TRUE)
  /\ UNCHANGED localVars

RsSetUseLighting ==
  /\ At("SetUseLighting")
  /\ SetUseLighting(Stmt.v[1] = 1)
  /\ Step(FALSE)
  /\ UNCHANGED localVars

RsDrawMesh ==
  /\ At("DrawMesh")
  /\ DrawMesh(Stmt.tag)
  /\ Step(FALSE)
  /\ UNCHANGED localVars

RenderSceneReturn ==
  /\ ~crashed
  /\ AtEnd
  /\ pc' = 0
  /\ last' = Call("RenderSceneReturn", 986, "", 0, TRUE)
  /\ UNCHANGED << m_pShaderManager, texVars, m_objectMaterials, meshLoads,
                  shaderVars, crashed, prepared, frame, objOps, localVars,
                  logVars, calls, prepareCalls, draws >>

Next ==
  \/ PrepareScene
  \/ RenderSceneBegin
  \/ RsAssignScale
  \/ RsAssignRotation
  \/ RsAssignPosition
  \/ RsSetTransformations
  \/ RsSetShaderTexture
  \/ RsSetShaderColor
  \/ RsSetTextureUVScale
  \/ RsSetShaderMaterial
  \/ RsSetUseLighting
  \/ RsDrawMesh
  \/ RenderSceneReturn

Spec == Init /\ [][Next]_vars

\* ------------------------------------------------------------- claims

Range(seq) == { seq[i] : i \in 1..Len(seq) }

\* Whether some entry of the texture registry carries `tag`.
Carried(tag) == \E i \in 1..m_loadedTextures : m_textureIDs[i].tag = tag

\* C1: a SetShaderMaterial call whose tag no entry of the material registry
\* carries writes none of the material uniforms: the values in effect
\* before the call are in effect after it.
C1_MaterialMissPassThrough ==
  [][ (last'.op = "SetShaderMaterial" /\ ~MaterialDefined(last'.tag))
        => material' = material ]_vars

\* C2: after CreateGLTexture calls with pairwise distinct tags only, every
\* tag whose registration succeeded is found at the slot equal to the number
\* of successful registrations before it, with the handle generated for it.
C2_RegisterThenFind ==
  (~tagReused /\ ~destroyed) =>
    \A i \in 1..Len(registered) :
      /\ FindTextureSlot(registered[i][1]) = i - 1
      /\ FindTextureID(registered[i][1]) = registered[i][2]

\* C3: the registry never holds more than MaxTextures entries, and a
\* CreateGLTexture call made on a full registry returns false and leaves the
\* entry count and the entries as they were.
C3_TextureCapacity ==
  [][ /\ m_loadedTextures' <= MaxTextures
      /\ (last'.op = "CreateGLTexture" /\ m_loadedTextures = MaxTextures)
           => /\ ~last'.ret
              /\ m_loadedTextures' = m_loadedTextures
              /\ m_textureIDs' = m_textureIDs ]_vars

\* C4: a CreateGLTexture call whose image decoded with a channel count other
\* than 3 or 4 returns false, leaves the entry count and every entry as they
\* were, and every tag that was not found before the call is not found after.
C4_UnsupportedFormatFails ==
  [][ (last'.op = "CreateGLTexture" /\ last'.ch \notin {0, 3, 4})
        => /\ ~last'.ret
           /\ m_loadedTextures' = m_loadedTextures
           /\ m_textureIDs' = m_textureIDs
           /\ \A tag \in AllTags :
                ~Carried(tag)
                  => /\ FindTextureIDIn(tag, m_textureIDs', m_loadedTextures') = NotFound
                     /\ FindTextureSlotIn(tag, m_textureIDs', m_loadedTextures') = NotFound
    ]_vars

\* A call with a one- or two-channel image has just failed on a registry that
\* holds entries, and its tag is not found.
C4_Witness ==
  /\ last.op = "CreateGLTexture"
  /\ last.ch \in {1, 2}
  /\ ~last.ret
  /\ m_loadedTextures > 0
  /\ FindTextureSlot(last.tag) = NotFound
  /\ FindTextureID(last.tag) = NotFound

\* C5: FindTextureID and FindTextureSlot return -1 for every tag that no
\* entry carries, the empty registry included, and never for a tag an entry
\* carries: no entry's slot or handle is -1.
C5_NotFoundSentinel ==
  /\ \A tag \in AllTags :
       IF Carried(tag)
         THEN FindTextureID(tag) # NotFound /\ FindTextureSlot(tag) # NotFound
         ELSE FindTextureID(tag) = NotFound /\ FindTextureSlot(tag) = NotFound
  /\ \A i \in 1..m_loadedTextures :
       i - 1 # NotFound /\ ToInt(m_textureIDs[i].ID) # NotFound

\* A registration has just failed on a registry of two or more entries: its
\* tag is answered with -1 and the second entry's tag with slot 1.
C5_Witness ==
  /\ last.op = "CreateGLTexture"
  /\ ~last.ret
  /\ m_loadedTextures >= 2
  /\ ~Carried(last.tag)
  /\ FindTextureSlot(last.tag) = NotFound
  /\ FindTextureSlot(m_textureIDs[2].tag) = 1

\* The state-setting calls the per-object state machine allows between two
\* draws.
ObjectOrders ==
  { << "SetTransformations", c, "SetShaderMaterial" >> :
      c \in {"SetShaderColor", "SetShaderTexture"} }
  \cup
  { << "SetTransformations", c, "SetTextureUVScale", "SetShaderMaterial" >> :
      c \in {"SetShaderColor", "SetShaderTexture"} }

\* A draw call of a RenderScene pass has just been made with a shader manager.
Drawn == m_pShaderManager # NULL /\ last.op = "DrawMesh" /\ last.line > 0

\* C6: every draw of a RenderScene pass is preceded, since the previous draw,
\* by SetTransformations, then SetShaderColor or SetShaderTexture, then
\* optionally SetTextureUVScale, then SetShaderMaterial, and nothing else.
C6_PerObjectOrder == Drawn => objOps \in ObjectOrders

\* C7: an object for which RenderScene did not call SetTextureUVScale since
\* the previous draw is drawn with UV scale 1 x 1.
C7_UVScaleDefault ==
  (Drawn /\ "SetTextureUVScale" \notin Range(objOps)) => UVscale = << 100, 100 >>

\* The line of RenderScene that draws the light bulb.
BulbDrawLine == 929

\* C8: the light bulb is drawn with bUseLighting false, and every object
\* drawn after it in the pass is drawn with bUseLighting true.
C8_LightingRestored ==
  /\ (Drawn /\ last.line = BulbDrawLine) => ~bUseLighting
  /\ (Drawn /\ last.line > BulbDrawLine) => bUseLighting

\* The calls that are not writes of the bUseLighting uniform.
NonLightingCalls ==
  { "SetTransformations", "SetShaderColor", "SetShaderTexture",
    "SetTextureUVScale", "SetShaderMaterial", "DrawMesh" }

\* C9: SetTransformations, SetShaderColor, SetShaderTexture,
\* SetTextureUVScale, SetShaderMaterial and the draw calls leave bUseLighting
\* as it is, so once false it stays false until it is written explicitly.
C9_NoImplicitLightingRestore ==
  [][ last'.op \in NonLightingCalls => bUseLighting' = bUseLighting ]_vars

\* After PrepareScene set bUseLighting and line 912 cleared it, the lamp head
\* (the last object of the pass) has been drawn with it still false.
C9_Witness ==
  /\ prepared
  /\ lights # << >>
  /\ Drawn
  /\ last.line = 984
  /\ ~bUseLighting

\* C10: with a shader manager, bUseTexture is true after SetShaderTexture and
\* false after SetShaderColor, and no other call changes it.
C10_ColorTextureExclusive ==
  [][ /\ (m_pShaderManager # NULL /\ last'.op = "SetShaderTexture") => bUseTexture'
      /\ (m_pShaderManager # NULL /\ last'.op = "SetShaderColor") => ~bUseTexture'
      /\ last'.op \notin {"SetShaderTexture", "SetShaderColor"}
           => bUseTexture' = bUseTexture ]_vars

\* SetShaderColor has just cleared the flag that an earlier SetShaderTexture
\* (which left slot 1 in objectTexture) had set.
C10_Witness ==
  /\ last.op = "SetShaderColor"
  /\ ~bUseTexture
  /\ objectTexture = 1
  /\ objectColor # << 0, 0, 0, 0 >>

\* C11: no two entries of the texture registry carry the same tag.
C11_TagUniqueness ==
  \A i, j \in 1..m_loadedTextures :
    m_textureIDs[i].tag = m_textureIDs[j].tag => i = j

\* C12: after DestroyGLTextures no handle generated for a successful
\* registration is allocated any more, the call generates no handle, and an
\* entry's handle is not replaced by a different allocated handle.
C12_TeardownReleases ==
  [][ last'.op = "DestroyGLTextures"
        => /\ \A i \in 1..Len(registered) : registered[i][2] \notin glAllocated'
           /\ glAllocated' \subseteq glAllocated
           /\ \A i \in 1..m_loadedTextures :
                m_textureIDs'[i].ID # m_textureIDs[i].ID
                  => m_textureIDs'[i].ID \notin glAllocated' ]_vars

\* C13: BindGLTextures binds entry i's handle to texture unit i for every i
\* below the entry count, leaves every other unit's binding and the registry
\* as they were, and a second call right after it changes no binding.
C13_BindIdempotent ==
  [][ last'.op = "BindGLTextures"
        => /\ \A i \in 0..(m_loadedTextures - 1) :
                glBound'[i] = EntryAt(m_textureIDs, i).ID
           /\ \A u \in Units : u >= m_loadedTextures => glBound'[u] = glBound[u]
           /\ m_textureIDs' = m_textureIDs
           /\ m_loadedTextures' = m_loadedTextures
           /\ BindGLTexturesOn(TexState').bound = glBound' ]_vars

\* BindGLTextures has just run on a registry of two or more entries: units 0
\* and 1 hold the first two handles, which differ, and the unit after the
\* last entry holds none.
C13_Witness ==
  /\ last.op = "BindGLTextures"
  /\ m_loadedTextures >= 2
  /\ m_loadedTextures <= MaxTextures
  /\ glBound[0] = m_textureIDs[1].ID
  /\ glBound[1] = m_textureIDs[2].ID
  /\ glBound[0] # glBound[1]
  /\ glBound[m_loadedTextures] = 0
  /\ BindGLTexturesOn(TexState).bound = glBound

\* C15: a CreateGLTexture call that fails on decode generates no handle; one
\* that fails on the channel count generates exactly one, which no entry
\* holds; one that succeeds generates exactly one, which exactly one entry
\* holds.
C15_HandleAccounting ==
  [][ last'.op = "CreateGLTexture"
        => LET new == glAllocated' \ glAllocated
               holders(h) == { i \in 1..m_loadedTextures' : m_textureIDs'[i].ID = h }
           IN  /\ last'.ch = 0 => new = {}
               /\ last'.ch \in {1, 2}
                    => Cardinality(new) = 1 /\ \A h \in new : holders(h) = {}
               /\ last'.ret
                    => Cardinality(new) = 1
                       /\ \A h \in new : Cardinality(holders(h)) = 1 ]_vars

\* The index in `registered` of the successful registration of `tag`, or 0.
RegistrationOf(tag) ==
  IF \E k \in 1..Len(registered) : registered[k][1] = tag
    THEN CHOOSE k \in 1..Len(registered) : registered[k][1] = tag
    ELSE 0

\* C14: after PrepareScene, whichever of the six loads failed, CreateGLTexture
\* was called for all six tags and BindGLTextures after them; a tag whose load
\* failed is answered with -1 by both lookups, and a tag that loaded is found
\* at the slot equal to the number of successful loads before it.
C14_FailedLoadDoesNotAbort ==
  (prepared /\ m_pShaderManager # NULL) =>
    /\ calledTags = Range(SceneTextures)
    /\ Len(SelectSeq(prepareCalls, LAMBDA c : c = "CreateGLTexture")) = Len(SceneTextures)
    /\ prepareCalls[Len(prepareCalls)] = "BindGLTextures"
    /\ \A i \in 0..(m_loadedTextures - 1) : glBound[i] = EntryAt(m_textureIDs, i).ID
    /\ \A tag \in Range(SceneTextures) :
         IF RegistrationOf(tag) = 0
           THEN FindTextureSlot(tag) = NotFound /\ FindTextureID(tag) = NotFound
           ELSE /\ FindTextureSlot(tag) = RegistrationOf(tag) - 1
                /\ FindTextureID(tag) = registered[RegistrationOf(tag)][2]

\* PrepareScene has run with the first and the fourth load failing, one of
\* them on its channel count: the four tags that loaded are at slots 0..3.
C14_Witness ==
  /\ prepared
  /\ m_pShaderManager # NULL
  /\ m_loadedTextures = 4
  /\ glNextName = 6
  /\ FindTextureSlot("moss") = NotFound
  /\ FindTextureSlot("rock") = NotFound
  /\ FindTextureSlot("paver") = 0
  /\ FindTextureSlot("stonetop") = 1
  /\ FindTextureSlot("water") = 2
  /\ FindTextureSlot("stone") = 3
  /\ glBound[3] = m_textureIDs[4].ID

\* Whether some entry of the material registry carries `tag`, and the
\* position of the entry defined first among those that do.
DefinedTwice(tag) ==
  \E i, j \in 1..Len(m_objectMaterials) :
    i < j /\ m_objectMaterials[i].tag = tag /\ m_objectMaterials[j].tag = tag
FirstDefined(tag) ==
  CHOOSE i \in 1..Len(m_objectMaterials) :
    /\ m_objectMaterials[i].tag = tag
    /\ \A j \in 1..(i - 1) : m_objectMaterials[j].tag # tag

\* C16: for a tag that two or more entries of the material registry carry,
\* FindMaterial yields the coefficients of the entry defined first, and
\* SetShaderMaterial writes those to the material uniforms.
C16_FirstMatchMaterial ==
  [][ /\ \A tag \in SomeMaterialTags :
           DefinedTwice(tag)
             => FoundMaterials(tag) = { Coefficients(m_objectMaterials[FirstDefined(tag)]) }
      /\ (last'.op = "SetShaderMaterial" /\ m_pShaderManager # NULL
            /\ DefinedTwice(last'.tag))
           => material' = Coefficients(m_objectMaterials[FirstDefined(last'.tag)]) ]_vars

\* SetShaderMaterial has just been called with a tag that three entries
\* carry, the first with other coefficients than the second: the uniforms
\* hold the first one's.
C16_Witness ==
  /\ last.op = "SetShaderMaterial"
  /\ m_pShaderManager # NULL
  /\ Len(m_objectMaterials) >= 3
  /\ \A i \in 1..3 : m_objectMaterials[i].tag = last.tag
  /\ Coefficients(m_objectMaterials[1]) # Coefficients(m_objectMaterials[2])
  /\ material = Coefficients(m_objectMaterials[1])

\* The calls of a completed PrepareScene are, in order: the material
\* definition, the light setup, one load of each of the five mesh kinds, the
\* six texture registrations, BindGLTextures; the meshes loaded are those
\* five and the lights are set up.
PreparedInOrder ==
  (prepared /\ m_pShaderManager # NULL) =>
    /\ Len(prepareCalls) = 2 + 5 + Len(SceneTextures) + 1
    /\ prepareCalls[1] = "DefineObjectMaterials"
    /\ prepareCalls[2] = "SetupSceneLights"
    /\ SubSeq(prepareCalls, 3, 7)
         = << "LoadPlaneMesh", "LoadCylinderMesh", "LoadConeMesh", "LoadBoxMesh",
              "LoadSphereMesh" >>
    /\ \A i \in 8..(Len(prepareCalls) - 1) : prepareCalls[i] = "CreateGLTexture"
    /\ prepareCalls[Len(prepareCalls)] = "BindGLTextures"
    /\ Len(meshLoads) = 5
    /\ Cardinality(Range(meshLoads)) = 5
    /\ Range(meshLoads) = Range(SubSeq(prepareCalls, 3, 7))
    /\ Len(m_objectMaterials) > 0
    /\ lights # << >>
    /\ last.op = "PrepareScene" => bUseLighting

\* C17: PrepareScene makes its calls in the order material definition, light
\* setup (bUseLighting true), the five mesh loads with no kind twice, the
\* texture registrations, BindGLTextures last; and no step of RenderScene
\* loads a mesh, registers a texture or binds one.
C17_InitializationOrder ==
  /\ []PreparedInOrder
  /\ [][ last'.line >= 525
           => /\ meshLoads' = meshLoads
              /\ texVars' = texVars
              /\ registered' = registered
              /\ calledTags' = calledTags
              /\ prepareCalls' = prepareCalls ]_vars

\* After a PrepareScene that registered all six textures, the second
\* RenderScene pass has made its last draw: the calls of PrepareScene are
\* still the only loads, registrations and bind.
C17_Witness ==
  /\ prepared
  /\ m_pShaderManager # NULL
  /\ frame = 2
  /\ last.op = "DrawMesh"
  /\ last.line = 984
  /\ m_loadedTextures = 6
  /\ Len(prepareCalls) = 14
  /\ prepareCalls[14] = "BindGLTextures"
  /\ Len(meshLoads) = 5

\* A matrix applied to a homogeneous vector.
Apply(M, v) ==
  [ r \in 1..4 |-> M[r][1] * v[1] + M[r][2] * v[2] + M[r][3] * v[3] + M[r][4] * v[4] ]

\* The five transformations applied to a vector one after the other.
ScaleV(s, v) == << s[1] * v[1], s[2] * v[2], s[3] * v[3], v[4] >>
RotateXV(d, v) ==
  << v[1], Cos90(d) * v[2] - Sin90(d) * v[3], Sin90(d) * v[2] + Cos90(d) * v[3], v[4] >>
RotateYV(d, v) ==
  << Cos90(d) * v[1] + Sin90(d) * v[3], v[2], Cos90(d) * v[3] - Sin90(d) * v[1], v[4] >>
RotateZV(d, v) ==
  << Cos90(d) * v[1] - Sin90(d) * v[2], Sin90(d) * v[1] + Cos90(d) * v[2], v[3], v[4] >>
TranslateV(p, v) ==
  << v[1] + p[1] * v[4], v[2] + p[2] * v[4], v[3] + p[3] * v[4], v[4] >>

\* Scale first, then the rotations about x, y and z, then the translation.
Composed(s, r, p, v) ==
  TranslateV(p, RotateZV(r[3], RotateYV(r[2], RotateXV(r[1], ScaleV(s, v)))))

\* The unit vectors and a general point, in homogeneous coordinates.
TestVectors ==
  { << 1, 0, 0, 0 >>, << 0, 1, 0, 0 >>, << 0, 0, 1, 0 >>, << 0, 0, 0, 1 >>,
    << 1, 2, 3, 1 >> }

Identity4 ==
  << << 1, 0, 0, 0 >>, << 0, 1, 0, 0 >>, << 0, 0, 1, 0 >>, << 0, 0, 0, 1 >> >>

\* C18: the model matrix SetTransformations pushes maps every vector as
\* scaling it, rotating it about x, then y, then z, and translating it does.
\* Scale (1,1,1) with no rotation and no translation gives the identity;
\* scale (2,1,1) with position (3,0,0) maps (0.5,0,0), written (1,0,0,2), to
\* (4,0,0), written (8,0,0,2); a 90-degree rotation about y alone maps
\* (1,0,0) to (0,0,-1).
C18_TransformComposition ==
  [][ (last'.op = "SetTransformations" /\ last'.line = 0 /\ m_pShaderManager # NULL)
        => \A M \in { Product(model') }, s \in { scaleXYZ' },
              r \in { rotationDegrees' }, p \in { positionXYZ' } :
               /\ \A v \in TestVectors : Apply(M, v) = Composed(s, r, p, v)
               /\ (s = << 1, 1, 1 >> /\ r = << 0, 0, 0 >> /\ p = << 0, 0, 0 >>)
                    => M = Identity4
               /\ (s = << 2, 1, 1 >> /\ r = << 0, 0, 0 >> /\ p = << 3, 0, 0 >>)
                    => Apply(M, << 1, 0, 0, 2 >>) = << 8, 0, 0, 2 >>
               /\ (s = << 1, 1, 1 >> /\ r = << 0, 90, 0 >> /\ p = << 0, 0, 0 >>)
                    => Apply(M, << 1, 0, 0, 1 >>) = << 0, 0, -1, 1 >> ]_vars

\* SetTransformations has just been called with a non-uniform scale, two
\* rotations and a translation, for which the order of the factors matters:
\* the matrix pushed maps (1,2,3) as the composition does, and the product
\* in the opposite order would not.
C18_Witness ==
  /\ last.op = "SetTransformations"
  /\ last.line = 0
  /\ m_pShaderManager # NULL
  /\ scaleXYZ = << 1, 2, 3 >>
  /\ rotationDegrees = << 90, 0, 270 >>
  /\ positionXYZ = << 1, -2, 4 >>
  /\ Apply(Product(model), << 1, 2, 3, 1 >>)
       = Composed(scaleXYZ, rotationDegrees, positionXYZ, << 1, 2, 3, 1 >>)
  /\ Apply(Product(ModelMatrix_ScaleLast(scaleXYZ, 90, 0, 270, positionXYZ)),
           << 1, 2, 3, 1 >>)
       # Apply(Product(model), << 1, 2, 3, 1 >>)

\* The draw statements of RenderScene in the order they are written
\* (lines 563, 594, 627, 665, 694, 724, 734, 764, 792, 820, 847, 874, 902,
\* 929, 937, 963, 976, 984).
DeclaredDraws ==
  << "DrawPlaneMesh()", "DrawBoxMesh()", "DrawBoxMesh()",
     "DrawCylinderMesh(true,true,false)", "DrawCylinderMesh(false,true,true)",
     "DrawCylinderMesh(false,false,true)", "DrawCylinderMesh(false,false,true)",
     "DrawBoxMesh()", "DrawBoxMesh()", "DrawBoxMesh()", "DrawBoxMesh()",
     "DrawBoxMesh()", "DrawBoxMesh()", "DrawSphereMesh()",
     "DrawCylinderMesh(false,false,true)", "DrawBoxMesh()",
     "DrawCylinderMesh(false,false,true)", "DrawConeMesh()" >>

\* Whether RenderScene pass f has returned.
PassReturned(f) == f < frame \/ (f = frame /\ pc = 0)

\* C19: the draw calls of every RenderScene pass are, in order, those of the
\* draw statements of RenderScene, each made once and at increasing lines;
\* a pass that returned made all of them; whatever the texture and material
\* registries hold.
C19_DrawOrder ==
  \A f \in 1..Len(draws) :
    /\ Len(draws[f]) <= Len(DeclaredDraws)
    /\ \A k \in 1..Len(draws[f]) : draws[f][k].mesh = DeclaredDraws[k]
    /\ \A k \in 2..Len(draws[f]) : draws[f][k - 1].line < draws[f][k].line
    /\ PassReturned(f) => Len(draws[f]) = Len(DeclaredDraws)

\* Two passes have returned, the first before PrepareScene (empty
\* registries), the second after a PrepareScene in which a texture load
\* failed: each made the 18 draws, the repeated cylinder draw of line 734
\* among them.
C19_Witness ==
  /\ frame = 2
  /\ pc = 0
  /\ prepared
  /\ m_loadedTextures \in 1..5
  /\ Len(draws[1]) = 18
  /\ Len(draws[2]) = 18
  /\ ~draws[1][1].prepared
  /\ draws[2][1].prepared
  /\ draws[2][7].line = 734
  /\ draws[2][7].mesh = draws[2][6].mesh

\* The uniforms a draw is made under.
RenderState(d) ==
  << d.model, d.bUseTexture, d.bUseLighting, d.objectTexture, d.material,
     d.UVscale, d.objectColor >>

\* C20: when PrepareScene ran before the first RenderScene pass, the k-th draw
\* of the second pass is made under the same model matrix, bUseTexture,
\* bUseLighting, texture slot, material, UV scale and color as the k-th draw
\* of the first pass.
C20_FrameEquality ==
  (Len(draws) >= 2 /\ Len(draws[1]) > 0 /\ draws[1][1].prepared) =>
    \A k \in 1..Len(draws[2]) : RenderState(draws[2][k]) = RenderState(draws[1][k])

\* C21: after PrepareScene, whichever texture loads failed, a draw of
\* RenderScene made while bUseTexture is true finds in objectTexture the slot
\* of an entry of the registry, whose handle is bound to that texture unit;
\* in particular objectTexture is not -1.
C21_ValidSlotAtDraw ==
  (Drawn /\ prepared /\ bUseTexture) =>
    /\ objectTexture # NotFound
    /\ objectTexture \in 0..(m_loadedTextures - 1)
    /\ glBound[objectTexture] = EntryAt(m_textureIDs, objectTexture).ID

\* C22: at every draw of RenderScene the model matrix is the one
\* SetTransformations composes from the values scaleXYZ, the three rotation
\* locals and positionXYZ hold at that draw.
C22_ModelMatchesLocals ==
  Drawn =>
    model = ModelMatrix(scaleXYZ, rotationDegrees[1], rotationDegrees[2],
                        rotationDegrees[3], positionXYZ)

\* The five setters that are to tolerate a null shader manager.
ShaderSetters ==
  { "SetTransformations", "SetShaderColor", "SetShaderTexture",
    "SetTextureUVScale", "SetShaderMaterial" }

\* C23: with a null shader manager each call of SetTransformations,
\* SetShaderColor, SetShaderTexture, SetTextureUVScale and SetShaderMaterial
\* returns without dereferencing the pointer and without changing a uniform,
\* whatever the material registry holds and whatever the tag.
C23_NullShaderTolerated ==
  [][ (m_pShaderManager = NULL /\ last'.op \in ShaderSetters)
        => ~crashed' /\ shaderVars' = shaderVars ]_vars

====
